---- MODULE Spec2Model ----
(***************************************************************************)
(* The class scheduler (SchedulerTool.use), the validators that check its   *)
(* output and the Output Validator (OutputValidatorTool.use), as a state   *)
(* machine.                                                                *)
(*                                                                         *)
(* Representation.  A Python dict keeps insertion order, so the catalog    *)
(* (class_data) is a sequence of days, each with a sequence of offerings.  *)
(* Students are numbered: student i stands for the key "Student<i>".  The  *)
(* schedule is a sequence indexed by student whose elements map a day to   *)
(* the list of {class, period} entries.  json.dumps / raw_decode of such a *)
(* document (string keys, integers, lists) is lossless and keeps the key   *)
(* order, so the document handed from one tool to the next is the value.   *)
(*                                                                         *)
(* rng is the state of Python's random module.  rng = 0 is the free source:*)
(* every outcome of random.choice and random.shuffle is possible.  rng > 0 *)
(* is a seeded generator that replays one sequence of outcomes; a seeded   *)
(* behaviour is one of the behaviours of the free source.                  *)
(***************************************************************************)
EXTENDS Integers, Sequences, FiniteSets, TLC

VARIABLES
    tool_input,        \* the text given to SchedulerTool.use, decoded lazily
    config_file,       \* system_config.json: found or not, and its content
    rng,               \* state of the random module
    pc,                \* position of the run
    class_data,        \* the catalog the run works on
    config,            \* the loaded configuration
    days,              \* list(class_data.keys())
    capacity_tracker,  \* (day, class) -> remaining seats
    student,           \* index of the student being processed
    schedule,          \* the allocation built so far / the document checked
    assigned_classes,  \* names held by the current student
    day_targets,       \* day -> target count of the current student
    remaining_classes, \* iterations left of the distribution loop
    day_index,         \* position of the per-day loop
    classes_list,      \* the part of the shuffled list not scanned yet
    total_assigned,    \* counter of the fallback fill loop
    result,            \* what use() returned: "none", "error" or "schedule";
                       \* the text handed to the validators
    reports,           \* the validators' reports
    output_tool_input, \* the text given to OutputValidatorTool.use
    other_run,         \* the locals of a second call of SchedulerTool.use
                       \* while the first one executes
    system_config,     \* system_config.json as the GUI saves it
    class_database,    \* class_database.json: day -> class name -> info
    call,              \* the last GUI handler called: arguments and return
    last_formatted_output, \* StructuredOutputFormatterTool's class variable
    format_response,   \* what the formatter returned, per call of a request
    formatted_table    \* what the final report of a request displays

\* the state of the GUI handlers and of the formatter
guiVars == <<system_config, class_database, call, last_formatted_output,
             format_response, formatted_table>>

vars == <<tool_input, config_file, rng, pc, class_data, config, days,
          capacity_tracker, student, schedule, assigned_classes, day_targets,
          remaining_classes, day_index, classes_list, total_assigned, result,
          reports, output_tool_input, other_run, guiVars>>

(***************************************************************************)
(* Bounds of the model.                                                    *)
(***************************************************************************)
MaxStudents == 3
MaxSeed == 160
MaxDayLen == 2
MaxFree == 1
MaxOutStudents == 3
\* the calls of the formatter the agent makes in one request
MaxCalls == 2

(***************************************************************************)
(* Helpers on sequences and dicts.                                         *)
(***************************************************************************)
Range(s) == {s[i] : i \in DOMAIN s}

RemoveAt(s, i) == [j \in 1..(Len(s) - 1) |-> IF j < i THEN s[j] ELSE s[j + 1]]

\* dict.get(key, default)
Get(d, key, default) == IF key \in DOMAIN d THEN d[key] ELSE default

RECURSIVE SumLen(_, _)
SumLen(d, keys) ==
    IF keys = {} THEN 0
    ELSE LET k == CHOOSE x \in keys : TRUE
         IN Len(d[k]) + SumLen(d, keys \ {k})

RECURSIVE Concat(_)
\* the concatenation of a sequence of sequences
Concat(ss) == IF ss = <<>> THEN <<>> ELSE Head(ss) \o Concat(Tail(ss))

RECURSIVE Ascending(_)
\* a set of integers as an increasing sequence
Ascending(S) ==
    IF S = {} THEN <<>>
    ELSE LET m == CHOOSE x \in S : \A y \in S : x <= y
         IN <<m>> \o Ascending(S \ {m})

\* the elements of s at their first occurrence, in order
FirstOccurrences(s) ==
    LET keep == Ascending({i \in DOMAIN s : \A j \in 1..(i - 1) : s[j] # s[i]})
    IN [k \in DOMAIN keep |-> s[keep[k]]]

Offering(n, c, p) == [name |-> n, capacity |-> c, periods |-> p]
Day(d, cs) == [day |-> d, classes |-> cs]

DaysOf(cd) == [i \in DOMAIN cd |-> cd[i].day]
DayIndex(cd, day) == CHOOSE i \in DOMAIN cd : cd[i].day = day
\* list(class_data[day].keys())
ClassNames(cd, day) ==
    LET cs == cd[DayIndex(cd, day)].classes IN [i \in DOMAIN cs |-> cs[i].name]
\* class_data[day][class_name]
Info(cd, day, class_name) ==
    LET cs == cd[DayIndex(cd, day)].classes
    IN cs[CHOOSE i \in DOMAIN cs : cs[i].name = class_name]
HasDay(cd, day) == \E i \in DOMAIN cd : cd[i].day = day
HasClass(cd, day, class_name) ==
    HasDay(cd, day) /\ class_name \in Range(ClassNames(cd, day))
Keys(cd) ==
    UNION {{<<cd[i].day, cd[i].classes[j].name>> : j \in DOMAIN cd[i].classes}
           : i \in DOMAIN cd}

(***************************************************************************)
(* The random module.                                                      *)
(***************************************************************************)
\* the generator's next state (a Lehmer generator when seeded)
NextRng(x) == IF x = 0 THEN 0 ELSE (x * 75) % 65537
\* the indices random.choice may return for a list of n elements
Outcomes(x, n) == IF x = 0 THEN 1..n ELSE {(x % n) + 1}

(***************************************************************************)
(* SchedulerTool.use                                                       *)
(***************************************************************************)
\* the configuration used when system_config.json cannot be read
DefaultConfig ==
    [num_students |-> 10, classes_per_student |-> 5, num_days |-> 2,
     min_classes_per_day |-> 1]

ConfigOf(file) ==
    [num_students |-> file.num_students,
     classes_per_student |-> file.classes_per_student,
     num_days |-> file.num_days,
     min_classes_per_day |-> file.min_classes_per_day]

LoadConfig(file) == IF file.found THEN ConfigOf(file) ELSE DefaultConfig

\* capacity_tracker[(day, class_name)] = info["capacity"]
InitTracker(cd) == [k \in Keys(cd) |-> Info(cd, k[1], k[2]).capacity]

\* Parsing, configuration, day list and capacity tracker.
Setup ==
    /\ pc = "start"
    /\ IF tool_input.kind = "garbage"
       THEN /\ result' = "error"
            /\ pc' = "returned"
            /\ UNCHANGED <<class_data, config, days, capacity_tracker, schedule>>
       ELSE /\ class_data' = tool_input.classes
            /\ config' = LoadConfig(config_file)
            /\ days' = DaysOf(tool_input.classes)
            /\ capacity_tracker' = InitTracker(tool_input.classes)
            /\ schedule' = <<>>
            /\ pc' = "students"
            /\ UNCHANGED result
    /\ student' = 0
    /\ UNCHANGED <<tool_input, config_file, rng, assigned_classes, day_targets,
                   remaining_classes, day_index, classes_list, total_assigned,
                   reports, output_tool_input, other_run, guiVars>>

\* a variant that forgets the number of days
RemainingClassesOneDay(cfg, num_days) ==
    cfg.classes_per_student - cfg.min_classes_per_day

\* remaining_classes = classes_per_student - (min_per_day * num_days)
RemainingClasses(cfg, num_days) ==
    cfg.classes_per_student - (cfg.min_classes_per_day * num_days)

\* The head of the per-student loop: empty day lists, the minimum targets.
\* a variant that leaves the last student out
StudentsLeftButOne(n, cfg) == n + 1 < cfg.num_students

\* students = Student1..Student<num_students>; n of them are done
StudentsLeft(n, cfg) == n < cfg.num_students

StartStudent ==
    /\ pc = "students"
    /\ StudentsLeft(student, config)
    /\ student' = student + 1
    /\ schedule' = Append(schedule, [d \in Range(days) |-> <<>>])
    /\ assigned_classes' = {}
    /\ remaining_classes' = RemainingClasses(config, Len(days))
    /\ day_targets' = [d \in Range(days) |-> config.min_classes_per_day]
    /\ pc' = "distribute"
    /\ UNCHANGED <<tool_input, config_file, rng, class_data, config, days,
                   capacity_tracker, day_index, classes_list, total_assigned,
                   result, reports,
                   output_tool_input, other_run, guiVars>>

\* One iteration of "for _ in range(remaining_classes)".
Distribute ==
    /\ pc = "distribute"
    /\ remaining_classes > 0
    /\ \E i \in Outcomes(rng, Len(days)) :
           day_targets' = [day_targets EXCEPT ![days[i]] = @ + 1]
    /\ remaining_classes' = remaining_classes - 1
    /\ rng' = NextRng(rng)
    /\ UNCHANGED <<tool_input, config_file, pc, class_data, config, days,
                   capacity_tracker, student, schedule, assigned_classes,
                   day_index, classes_list, total_assigned, result, reports,
                   output_tool_input, other_run, guiVars>>

\* The per-day loop: shuffle the day's offerings, or leave the loop.
NextDay ==
    /\ \/ pc = "distribute" /\ remaining_classes <= 0 /\ day_index' = 1
       \/ pc = "days" /\ day_index' = day_index
    /\ IF day_index' <= Len(days)
       THEN /\ classes_list' = ClassNames(class_data, days[day_index'])
            /\ pc' = "scan"
            /\ UNCHANGED total_assigned
       ELSE /\ total_assigned' = SumLen(schedule[student], Range(days))
            /\ classes_list' = <<>>
            /\ pc' = "fill"
    /\ UNCHANGED <<tool_input, config_file, rng, class_data, config, days,
                   capacity_tracker, student, schedule, assigned_classes,
                   day_targets, remaining_classes, result, reports,
                   output_tool_input, other_run, guiVars>>

\* used_periods of the current student on a day
UsedPeriods(day) == {schedule[student][day][i].period :
                        i \in DOMAIN schedule[student][day]}

\* a variant that does not filter the periods already used
AllPeriods(day, class_name) == Info(class_data, day, class_name).periods

\* the offering's periods not used by the student that day
AvailablePeriods(day, class_name) ==
    SelectSeq(Info(class_data, day, class_name).periods,
              LAMBDA p : p \notin UsedPeriods(day))

\* a variant that never finds a class already held
NeverAssigned(class_name) == FALSE

\* class_name in assigned_classes
AlreadyAssigned(class_name) == class_name \in assigned_classes

\* a variant that lets a class with no seat left through
HasCapacityOffByOne(day, class_name) ==
    ~(Get(capacity_tracker, <<day, class_name>>, 0) < 0)

\* not (capacity_tracker.get((day, class_name), 0) <= 0)
HasCapacity(day, class_name) ==
    ~(Get(capacity_tracker, <<day, class_name>>, 0) <= 0)

\* a variant that gives the seat back
TrackedUp(tracker, key) == [tracker EXCEPT ![key] = @ + 1]

\* a variant that takes two seats for one entry
TrackedTwice(tracker, key) == [tracker EXCEPT ![key] = @ - 2]

\* capacity_tracker[(day, class_name)] -= 1
Tracked(tracker, key) == [tracker EXCEPT ![key] = @ - 1]

\* a variant that writes the period after the chosen one
AssignNextPeriod(day, class_name, period) ==
    /\ schedule' = [schedule EXCEPT ![student][day] =
                        Append(@, [class |-> class_name,
                                   period |-> period + 1])]
    /\ assigned_classes' = assigned_classes \cup {class_name}
    /\ capacity_tracker' = Tracked(capacity_tracker, <<day, class_name>>)

\* append the entry, mark the class as used, take one seat
Assign(day, class_name, period) ==
    /\ schedule' = [schedule EXCEPT ![student][day] =
                        Append(@, [class |-> class_name, period |-> period])]
    /\ assigned_classes' = assigned_classes \cup {class_name}
    /\ capacity_tracker' = Tracked(capacity_tracker, <<day, class_name>>)

\* One iteration of the scan of the shuffled list.  The order of the part of
\* the shuffled list not reached yet is decided when it is reached.
Scan ==
    /\ pc = "scan"
    /\ LET day == days[day_index] IN
       IF \/ classes_list = <<>>
          \/ Len(schedule[student][day]) >= day_targets[day]
       THEN /\ pc' = "days"
            /\ day_index' = day_index + 1
            /\ classes_list' = <<>>
            /\ UNCHANGED <<rng, schedule, assigned_classes, capacity_tracker>>
       ELSE \E i \in Outcomes(rng, Len(classes_list)) :
              LET class_name == classes_list[i]
                  available_periods == AvailablePeriods(day, class_name)
              IN /\ classes_list' = RemoveAt(classes_list, i)
                 /\ UNCHANGED <<pc, day_index>>
                 /\ IF \/ AlreadyAssigned(class_name)
                       \/ ~HasCapacity(day, class_name)
                       \/ available_periods = <<>>
                    THEN /\ rng' = NextRng(rng)
                         /\ UNCHANGED <<schedule, assigned_classes,
                                        capacity_tracker>>
                    ELSE /\ \E j \in Outcomes(NextRng(rng),
                                              Len(available_periods)) :
                                Assign(day, class_name, available_periods[j])
                         /\ rng' = NextRng(NextRng(rng))
    /\ UNCHANGED <<tool_input, config_file, class_data, config, days, student,
                   day_targets, remaining_classes, total_assigned, result,
                   reports, output_tool_input, other_run, guiVars>>

\* can the fallback pass give this (day, class) to the current student
Fillable(day, class_name) ==
    /\ ~AlreadyAssigned(class_name)
    /\ HasCapacity(day, class_name)
    /\ AvailablePeriods(day, class_name) # <<>>

\* the (day, class) positions of the catalog, in the order of the two loops
Positions ==
    UNION {{<<i, j>> : j \in DOMAIN class_data[i].classes}
           : i \in DOMAIN class_data}

Before(p, q) == p[1] < q[1] \/ (p[1] = q[1] /\ p[2] < q[2])

FillablePositions ==
    {p \in Positions :
        Fillable(class_data[p[1]].day, class_data[p[1]].classes[p[2]].name)}

\* a variant that forgets to count the entry
NotCounted(total) == total

\* total_assigned += 1
Counted(total) == total + 1

\* One iteration of "while total_assigned < classes_per_student".
Fill ==
    /\ pc = "fill"
    /\ IF \/ ~(total_assigned < config.classes_per_student)
          \/ FillablePositions = {}
       THEN /\ pc' = "students"
            /\ UNCHANGED <<rng, schedule, assigned_classes, capacity_tracker,
                           total_assigned>>
       ELSE LET p == CHOOSE x \in FillablePositions :
                        \A y \in FillablePositions : ~Before(y, x)
                day == class_data[p[1]].day
                class_name == class_data[p[1]].classes[p[2]].name
                available_periods == AvailablePeriods(day, class_name)
            IN /\ \E j \in Outcomes(rng, Len(available_periods)) :
                      Assign(day, class_name, available_periods[j])
               /\ total_assigned' = Counted(total_assigned)
               /\ rng' = NextRng(rng)
               /\ UNCHANGED pc
    /\ UNCHANGED <<tool_input, config_file, class_data, config, days, student,
                   day_targets, remaining_classes, day_index, classes_list,
                   result, reports,
                   output_tool_input, other_run, guiVars>>

\* return json.dumps(schedule)
Return ==
    /\ pc = "students"
    /\ ~StudentsLeft(student, config)
    /\ result' = "schedule"
    /\ pc' = "returned"
    /\ UNCHANGED <<tool_input, config_file, rng, class_data, config, days,
                   capacity_tracker, student, schedule, assigned_classes,
                   day_targets, remaining_classes, day_index, classes_list,
                   total_assigned, reports,
                   output_tool_input, other_run, guiVars>>

NextScheduler ==
    \/ Setup
    \/ StartStudent
    \/ Distribute
    \/ NextDay
    \/ Scan
    \/ Fill
    \/ Return

(***************************************************************************)
(* The validators (checkers.py, period_validator.py).  Each is a function  *)
(* of the decoded document.                                                *)
(***************************************************************************)
\* the day keys a document may carry, in the order they are written
DayNames == <<"Day1", "Day2", "Day3">>
DayKeys(d) == SelectSeq(DayNames, LAMBDA x : x \in DOMAIN d)

Students(sch) == [i \in 1..Len(sch) |-> i]

\* every entry of the document in the order of "for student ... for day ...
\* for entry ..."
EntriesOf(sch, s) ==
    Concat([k \in DOMAIN DayKeys(sch[s]) |->
               LET day == DayKeys(sch[s])[k]
               IN [i \in DOMAIN sch[s][day] |->
                      [student |-> s, day |-> day,
                       class |-> sch[s][day][i].class,
                       period |-> sch[s][day][i].period]]])
AllEntries(sch) == Concat([s \in 1..Len(sch) |-> EntriesOf(sch, s)])

ClassNumberChecker(sch) ==
    LET invalid == SelectSeq(Students(sch), LAMBDA s :
                       Len(Get(sch[s], "Day1", <<>>))
                         + Len(Get(sch[s], "Day2", <<>>)) # 5)
    IN [valid |-> Len(invalid) = 0, invalid_students |-> invalid]

UniqueAttendanceChecker(sch) ==
    LET all_classes(s) ==
            [i \in DOMAIN Get(sch[s], "Day1", <<>>) |-> sch[s]["Day1"][i].class]
            \o [i \in DOMAIN Get(sch[s], "Day2", <<>>) |-> sch[s]["Day2"][i].class]
        invalid == SelectSeq(Students(sch), LAMBDA s :
                       Len(all_classes(s)) # Cardinality(Range(all_classes(s))))
    IN [valid |-> Len(invalid) = 0, invalid_students |-> invalid]

\* a variant that also reports a class that is exactly full
ClassAttendanceCheckerFull(sch, cd) ==
    LET entries == AllEntries(sch)
        keys == FirstOccurrences([i \in DOMAIN entries |->
                                     <<entries[i].day, entries[i].class>>])
        counts(k) == Cardinality({i \in DOMAIN entries :
                         <<entries[i].day, entries[i].class>> = k})
        known(k) == HasClass(cd, k[1], k[2])
        over == SelectSeq(keys, LAMBDA k :
                    known(k) /\ counts(k) >= Info(cd, k[1], k[2]).capacity)
    IN [valid |-> Len(over) = 0,
        exceeded_classes |->
            [i \in DOMAIN over |->
                <<over[i][1], over[i][2], counts(over[i]),
                  Info(cd, over[i][1], over[i][2]).capacity>>]]

\* counts per (day, class_name) over every student and day of the schedule;
\* a pair is reported when class_data declares a capacity below its count
ClassAttendanceChecker(sch, cd) ==
    LET entries == AllEntries(sch)
        keys == FirstOccurrences([i \in DOMAIN entries |->
                                     <<entries[i].day, entries[i].class>>])
        counts(k) == Cardinality({i \in DOMAIN entries :
                         <<entries[i].day, entries[i].class>> = k})
        known(k) == HasClass(cd, k[1], k[2])
        over == SelectSeq(keys, LAMBDA k :
                    known(k) /\ counts(k) > Info(cd, k[1], k[2]).capacity)
    IN [valid |-> Len(over) = 0,
        exceeded_classes |->
            [i \in DOMAIN over |->
                <<over[i][1], over[i][2], counts(over[i]),
                  Info(cd, over[i][1], over[i][2]).capacity>>]]

\* a variant that accepts a day with more than 6 offerings
ScheduleValidatorAtLeast(cd) ==
    LET invalid_days == SelectSeq(DaysOf(cd), LAMBDA d :
                            Len(ClassNames(cd, d)) < 6)
    IN [valid |-> Len(invalid_days) = 0, invalid_days |-> invalid_days]

\* a day is valid when len(classes.keys()) == 6
ScheduleValidator(cd) ==
    LET invalid_days == SelectSeq(DaysOf(cd), LAMBDA d :
                            Len(ClassNames(cd, d)) # 6)
    IN [valid |-> Len(invalid_days) = 0, invalid_days |-> invalid_days]

ClassCounterChecker(sch, cd) ==
    LET all_offered == {k[2] : k \in Keys(cd)}
        entries == AllEntries(sch)
        bad == SelectSeq(entries, LAMBDA e : e.class \notin all_offered)
    IN [valid |-> Len(bad) = 0,
        invalid_entries |->
            [i \in DOMAIN bad |-> <<bad[i].student, bad[i].day, bad[i].class>>]]

\* the conflicts of one day list: an entry whose period an earlier entry holds
DayConflicts(s, day, list) ==
    LET hit == Ascending({i \in DOMAIN list :
                   \E j \in 1..(i - 1) : list[j].period = list[i].period})
        first(i) == CHOOSE j \in 1..(i - 1) :
                        /\ list[j].period = list[i].period
                        /\ \A k \in 1..(j - 1) : list[k].period # list[i].period
    IN [n \in DOMAIN hit |->
           [student |-> s, day |-> day, period |-> list[hit[n]].period,
            classes |-> <<list[first(hit[n])].class, list[hit[n]].class>>]]

PeriodConflictChecker(sch) ==
    LET conflicts == Concat([s \in 1..Len(sch) |->
                        DayConflicts(s, "Day1", Get(sch[s], "Day1", <<>>))
                        \o DayConflicts(s, "Day2", Get(sch[s], "Day2", <<>>))])
    IN [valid |-> Len(conflicts) = 0, conflicts |-> conflicts,
        total_conflicts |-> Len(conflicts)]

\* the reports before any validator has run
NoReports ==
    [number |-> [valid |-> FALSE, invalid_students |-> <<>>],
     unique |-> [valid |-> FALSE, invalid_students |-> <<>>],
     attendance |-> [valid |-> FALSE, exceeded_classes |-> <<>>],
     validator |-> [valid |-> FALSE, invalid_days |-> <<>>],
     counter |-> [valid |-> FALSE, invalid_entries |-> <<>>],
     period |-> [valid |-> FALSE, conflicts |-> <<>>, total_conflicts |-> 0],
     output |-> [valid |-> FALSE, clarity_score |-> 0, summary |-> "",
                 issues |-> <<>>, suggestions |-> <<>>]]

schedulerVars == <<tool_input, config_file, rng, class_data, config, days,
                   capacity_tracker, student, schedule, assigned_classes,
                   day_targets, remaining_classes, day_index, classes_list,
                   total_assigned, result>>

\* The text a validator is handed is a JSON document ("schedule",
\* "class_data", "wrapped"), a JSON object followed by other text
\* ("trailing"), a JSON number followed by other text ("number_and_text") or a
\* text that does not start with a JSON value ("garbage").
\* decoder.raw_decode(tool_input.strip()) reads the JSON value the text starts
\* with and ignores what follows; it fails when there is none
RawDecodes(text) == text # "garbage"

\* the decoded value is a dict: .items() and .get() exist
DecodesDict(text) ==
    text \in {"schedule", "class_data", "wrapped", "trailing", "object"}

\* the report of the except branch
ParseError(report) == report @@ [error |-> "JSON parsing error"]

\* One validator's use(): the report of the except branch when the text does
\* not decode, AttributeError when the decoded value is not a dict, and the
\* report of the check otherwise.
Use(text, field, empty, report, done) ==
    IF ~RawDecodes(text)
    THEN /\ reports' = [reports EXCEPT ![field] = ParseError(empty)]
         /\ pc' = done
    ELSE IF ~DecodesDict(text)
    THEN /\ pc' = "raised"
         /\ UNCHANGED reports
    ELSE /\ reports' = [reports EXCEPT ![field] = report]
         /\ pc' = done

\* The validators are applied, one after the other, to the returned document.
CheckNumber ==
    /\ pc = "returned" /\ result \notin {"none", "error"}
    /\ Use(result, "number", [valid |-> FALSE, invalid_students |-> <<>>],
           ClassNumberChecker(schedule), "number_checked")
    /\ UNCHANGED <<schedulerVars, output_tool_input, other_run, guiVars>>

CheckUnique ==
    /\ pc = "number_checked"
    /\ Use(result, "unique", [valid |-> FALSE, invalid_students |-> <<>>],
           UniqueAttendanceChecker(schedule), "unique_checked")
    /\ UNCHANGED <<schedulerVars, output_tool_input, other_run, guiVars>>

CheckAttendance ==
    /\ pc = "unique_checked"
    /\ Use(result, "attendance", [valid |-> FALSE, exceeded_classes |-> <<>>],
           ClassAttendanceChecker(schedule, class_data), "attendance_checked")
    /\ UNCHANGED <<schedulerVars, output_tool_input, other_run, guiVars>>

CheckOfferings ==
    /\ pc = "attendance_checked"
    /\ Use(tool_input.kind, "validator",
           [valid |-> FALSE, invalid_days |-> <<>>],
           ScheduleValidator(class_data), "validator_checked")
    /\ UNCHANGED <<schedulerVars, output_tool_input, other_run, guiVars>>

CheckCounter ==
    /\ pc = "validator_checked"
    /\ Use(result, "counter", [valid |-> FALSE, invalid_entries |-> <<>>],
           ClassCounterChecker(schedule, class_data), "counter_checked")
    /\ UNCHANGED <<schedulerVars, output_tool_input, other_run, guiVars>>

CheckPeriods ==
    /\ pc = "counter_checked"
    /\ Use(result, "period", [valid |-> FALSE, conflicts |-> <<>>],
           PeriodConflictChecker(schedule), "period_checked")
    /\ UNCHANGED <<schedulerVars, output_tool_input, other_run, guiVars>>

NextValidators ==
    \/ CheckNumber
    \/ CheckUnique
    \/ CheckAttendance
    \/ CheckOfferings
    \/ CheckCounter
    \/ CheckPeriods

Next == NextScheduler \/ NextValidators

(***************************************************************************)
(* OutputValidatorTool.use (output_validator.py).                          *)
(*                                                                         *)
(* A JSON value is kept with its type.  Of the rendered text the tool      *)
(* reads its length and whether it contains some substrings, so a text is  *)
(* its length and the set of those substrings it contains.  Scores are     *)
(* kept exactly: the raw score in fifteenths of a point, the reported      *)
(* clarity_score (round(score, 1)) in tenths of a point.                   *)
(***************************************************************************)
JList(n) == [type |-> "list", size |-> n]
JNumber == [type |-> "number", size |-> 0]
JNull == [type |-> "null", size |-> 0]
\* a JSON object of day values
JDict(f) == [type |-> "dict", items |-> f]
\* a JSON number where an object of day values is expected
JNumberValue == [type |-> "number", items |-> <<>>]

Text(n, found) == [length |-> n, contains |-> found]
\* data.get("formatted_output", "")
NoText == Text(0, {})

\* bool(value): an empty list, an empty text and null are false
Truthy(v) == IF v.type = "list" THEN v.size > 0 ELSE v.type = "number"
\* len(value) is defined
HasLen(v) == v.type = "list"
\* m in formatted_output
Contains(text, m) == m \in text.contains

\* data.get("schedule", "{}"), decoded when it is a string; a string that
\* does not decode gives {}
ScheduleOf(data) ==
    IF data.schedule.form \in {"object", "string"} THEN data.schedule.value
    ELSE <<>>

\* data.get("formatted_output", ""): the text, "" when the key is missing,
\* None when the value is null; None is false like the empty text
FormattedOutputOf(data) ==
    IF data.formatted_output.given = "text" THEN data.formatted_output.text
    ELSE NoText

\* day_keys = [f"Day{i}" for i in range(1, expected_days + 1)]
OutputDayKeys(cfg) == SubSeq(DayNames, 1, cfg.num_days)

Issue(k, s, d, n) == [issue |-> k, student |-> s, day |-> d, count |-> n]

\* Check 1: all expected students are present
StudentCountIssues(sch, cfg) ==
    IF Len(sch) # cfg.num_students
    THEN <<Issue("student_count", 0, "", Len(sch))>> ELSE <<>>

\* Check 2: each student has all expected days
DayIssues(sch, cfg) ==
    Concat([s \in 1..Len(sch) |->
        Concat([k \in DOMAIN OutputDayKeys(cfg) |->
            LET day_key == OutputDayKeys(cfg)[k]
            IN IF day_key \notin DOMAIN sch[s].items
               THEN <<Issue("missing_day", s, day_key, 0)>>
               ELSE IF ~Truthy(sch[s].items[day_key])
               THEN <<Issue("empty_day", s, day_key, 0)>>
               ELSE <<>>])])

\* Check 3: the formatted output exists and has content
LengthIssues(text) ==
    IF text.length = 0 \/ text.length < 100
    THEN <<Issue("too_short", 0, "", text.length)>> ELSE <<>>

\* Check 4: the formatted output contains the key elements
HeaderIssues(text) ==
    IF text.length = 0 THEN <<>>
    ELSE (IF ~Contains(text, "Student")
          THEN <<Issue("no_student_header", 0, "", 0)>> ELSE <<>>)
         \o (IF ~Contains(text, "Day 1") /\ ~Contains(text, "Day1")
             THEN <<Issue("no_day1", 0, "", 0)>> ELSE <<>>)
         \o (IF ~Contains(text, "Day 2") /\ ~Contains(text, "Day2")
             THEN <<Issue("no_day2", 0, "", 0)>> ELSE <<>>)

\* "+" in formatted_output or "|" in formatted_output or U+2500 in it
HasTableStructure(text) ==
    Contains(text, "+") \/ Contains(text, "|") \/ Contains(text, "U+2500")

\* sum(len(days.get(day_key, [])) for day_key in day_keys)
StudentClasses(value, cfg) ==
    LET held == {d \in Range(OutputDayKeys(cfg)) : d \in DOMAIN value.items}
    IN SumLen([d \in held |-> [i \in 1..value.items[d].size |-> i]], held)

\* Check 5: the class distribution
ClassCountIssues(sch, cfg) ==
    Concat([s \in 1..Len(sch) |->
        IF StudentClasses(sch[s], cfg) # cfg.classes_per_student
        THEN <<Issue("class_count", s, "", StudentClasses(sch[s], cfg))>>
        ELSE <<>>])

OutputIssues(sch, text, cfg) ==
    StudentCountIssues(sch, cfg) \o DayIssues(sch, cfg) \o LengthIssues(text)
        \o HeaderIssues(text) \o ClassCountIssues(sch, cfg)

max_issues == 15

\* a variant without the cap at 0
ClarityScoreUncapped(n) == 100 * max_issues - n * 100

\* max(0, 100 - (len(issues) * (100 / max_issues))), in fifteenths
ClarityScore(n) ==
    IF 100 * max_issues - n * 100 < 0 THEN 0 ELSE 100 * max_issues - n * 100

\* round(score, 1), in tenths
Rounded(score) == (20 * score + max_issues) \div (2 * max_issues)

Summary(score) ==
    IF score >= 90 * max_issues THEN "clear"
    ELSE IF score >= 70 * max_issues THEN "acceptable"
    ELSE "issues"

OutputSuggestions(text, score) ==
    LET found == (IF text.length = 0 \/ text.length < 100
                  THEN <<"headers_and_rows">> ELSE <<>>)
                 \o (IF text.length # 0 /\ ~HasTableStructure(text)
                     THEN <<"table_format">> ELSE <<>>)
                 \o (IF text.length # 0 /\ ~Contains(text, "(P")
                     THEN <<"period_info">> ELSE <<>>)
    IN IF score < 100 * max_issues /\ found = <<>> THEN <<"review">> ELSE found

\* the return of the except branches
ErrorReport ==
    [valid |-> FALSE, clarity_score |-> 0, summary |-> "error",
     issues |-> <<Issue("exception", 0, "", 0)>>, suggestions |-> <<>>]

\* the report built at the end of use()
ClarityReport(sch, text, cfg) ==
    LET issues == OutputIssues(sch, text, cfg)
        score == ClarityScore(Len(issues))
    IN [valid |-> Len(issues) = 0,
        clarity_score |-> Rounded(score),
        summary |-> Summary(score),
        issues |-> issues,
        suggestions |-> OutputSuggestions(text, score),
        student_count |-> Len(sch),
        total_classes |->
            SumLen([s \in 1..Len(sch) |->
                       [i \in 1..StudentClasses(sch[s], cfg) |-> i]],
                   1..Len(sch)),
        formatted_output_length |-> text.length]

\* an exception leaves use() after the try block: "day_key not in days" and
\* days.get() on a value that is not a dict, len() of a value without length
ScheduleRaises(sch, cfg) ==
    \E s \in 1..Len(sch) :
        \/ sch[s].type # "dict" /\ OutputDayKeys(cfg) # <<>>
        \/ /\ sch[s].type = "dict"
           /\ \E d \in Range(OutputDayKeys(cfg)) \cap DOMAIN sch[s].items :
                  ~HasLen(sch[s].items[d])

\* and len(formatted_output) of None when the report is built
OutputRaises(data, cfg) ==
    \/ ScheduleRaises(ScheduleOf(data), cfg)
    \/ data.formatted_output.given = "null"

ValidateOutput ==
    /\ pc = "validate_output"
    /\ IF ~RawDecodes(output_tool_input.kind)
          \/ ~DecodesDict(output_tool_input.kind)
       THEN /\ reports' = [reports EXCEPT !.output = ErrorReport]
            /\ pc' = "output_validated"
       ELSE LET sch == ScheduleOf(output_tool_input)
                text == FormattedOutputOf(output_tool_input)
                cfg == LoadConfig(config_file)
            IN IF OutputRaises(output_tool_input, cfg)
               THEN /\ pc' = "raised"
                    /\ UNCHANGED reports
               ELSE /\ reports' = [reports EXCEPT
                                     !.output = ClarityReport(sch, text, cfg)]
                    /\ pc' = "output_validated"
    /\ UNCHANGED <<schedulerVars, output_tool_input, other_run, guiVars>>

NextOutput == ValidateOutput

(***************************************************************************)
(* The GUI's configuration handler.                                        *)
(***************************************************************************)
\* None
None == [type |-> "null"]

\* load_system_config: the defaults used when the file is missing or broken
DefaultSystemConfig ==
    [num_students |-> 10, classes_per_student |-> 5, num_days |-> 2,
     periods_per_day |-> 6, min_classes_per_day |-> 1]

NoCall == [fn |-> "none"]

\* a value a handler is given: a number (kept in halves, so that 3 stands
\* for 1.5), None for an empty field, or a text
Number(h) == [type |-> "number", halves |-> h]
Words(t) == [type |-> "text", text |-> t]

\* int(value) of a number: the fraction is cut off, toward zero
IntOf(v) == IF v.halves >= 0 THEN v.halves \div 2 ELSE -((-v.halves) \div 2)

ConfigKeys ==
    <<"num_students", "classes_per_student", "num_days", "periods_per_day",
      "min_classes_per_day">>

\* what the five int() calls of the dict display do: the first argument
\* that is no number raises, TypeError for None and ValueError for a text
Conversion(args) ==
    LET bad == {i \in DOMAIN ConfigKeys : args[ConfigKeys[i]].type # "number"}
        first == CHOOSE i \in bad : \A j \in bad : i <= j
    IN IF bad = {} THEN "converted"
       ELSE IF args[ConfigKeys[first]].type = "null" THEN "TypeError"
       ELSE "ValueError"

IntConfig(args) == [k \in Range(ConfigKeys) |-> IntOf(args[k])]

\* any(v < 1 for v in config.values())
BelowOne(cfg) == \E k \in DOMAIN cfg : cfg[k] < 1

\* a variant that forgets the number of days
TooFewClassesForOneDay(cfg) ==
    cfg.classes_per_student < cfg.min_classes_per_day

\* config["classes_per_student"] < config["min_classes_per_day"] * config["num_days"]
TooFewClasses(cfg) ==
    cfg.classes_per_student < cfg.min_classes_per_day * cfg.num_days

\* the (success, message) a handler returns, or the exception it lets out
Answer(success, msg) == [outcome |-> "returned", success |-> success, msg |-> msg]
Raise(exception) == [outcome |-> "raised", success |-> FALSE, msg |-> exception]

\* initialize_agents builds the LLM adapter and the agents: it returns, or
\* raises; a ValueError is caught by update_system_config's handler
AgentOutcomes == {"returned", "ValueError", "RuntimeError"}

\* save_system_config: the file is written, or open/dump fail and the
\* exception becomes (False, message)
SaveSystemConfig(cfg, written) ==
    IF written THEN Answer(TRUE, "Configuration saved successfully!")
    ELSE Answer(FALSE, "Error saving configuration")

\* does the call write system_config.json
Saves(args, written) ==
    /\ Conversion(args) = "converted"
    /\ ~BelowOne(IntConfig(args))
    /\ ~TooFewClasses(IntConfig(args))
    /\ written

\* what update_system_config returns
UpdateReturn(args, written, agents) ==
    IF Conversion(args) = "TypeError" THEN Raise("TypeError")
    ELSE IF Conversion(args) = "ValueError"
    THEN Answer(FALSE, "All fields must be valid numbers")
    ELSE IF BelowOne(IntConfig(args))
    THEN Answer(FALSE, "All values must be at least 1")
    ELSE IF TooFewClasses(IntConfig(args))
    THEN Answer(FALSE, "Classes per student must be >= min_classes_per_day * num_days")
    ELSE IF ~written THEN SaveSystemConfig(IntConfig(args), FALSE)
    ELSE IF agents = "returned"
    THEN Answer(TRUE, "Configuration saved successfully! Agents reinitialized")
    ELSE IF agents = "ValueError"
    THEN Answer(FALSE, "All fields must be valid numbers")
    ELSE Raise(agents)

\* the values typed into the five fields: whole numbers, fractions, numbers
\* below one, an empty field, a text
ConfigArguments ==
    {[num_students |-> a, classes_per_student |-> b, num_days |-> c,
      periods_per_day |-> d, min_classes_per_day |-> e] :
        a \in {None, Number(1), Number(2)},
        b \in {Words("many"), Number(2), Number(4), Number(5)},
        c \in {Number(-2), Number(2), Number(4)},
        d \in {Number(0), Number(2)},
        e \in {Number(2), Number(3), Number(4)}}

\* the GUI variables a handler does not touch
formatterVars == <<last_formatted_output, format_response, formatted_table>>

\* the variables of the tools
toolVars == <<schedulerVars, reports, output_tool_input, other_run>>

\* The handler of the "Update Configuration" button.
UpdateSystemConfig ==
    /\ pc = "gui"
    /\ \E args \in ConfigArguments, written \in BOOLEAN,
          agents \in AgentOutcomes :
           /\ system_config' = IF Saves(args, written) THEN IntConfig(args)
                                ELSE system_config
           /\ call' = [fn |-> "update_system_config", args |-> args,
                       returned |-> UpdateReturn(args, written, agents)]
    /\ UNCHANGED <<pc, toolVars, class_database, formatterVars>>

NextConfig == UpdateSystemConfig

(***************************************************************************)
(* The GUI's class database handlers.                                      *)
(***************************************************************************)
\* not value: None, zero and the empty text are false
Falsy(v) ==
    \/ v.type = "null"
    \/ v.type = "number" /\ v.halves = 0
    \/ v.type = "text" /\ v.text \in {"", <<>>}

\* A periods text is kept as the list periods_str.split(",") gives, each
\* part a sequence of characters.
RECURSIVE Strip(_)
\* p.strip()
Strip(p) ==
    IF p = <<>> THEN p
    ELSE IF Head(p) = " " THEN Strip(Tail(p))
    ELSE IF p[Len(p)] = " " THEN Strip(SubSeq(p, 1, Len(p) - 1))
    ELSE p

Digits == <<"0", "1", "2", "3", "4", "5", "6", "7", "8", "9">>
DigitValue(c) == (CHOOSE i \in DOMAIN Digits : Digits[i] = c) - 1

\* int() accepts the part: digits, after an optional sign
Numeral(p) ==
    LET body == IF p # <<>> /\ Head(p) \in {"-", "+"} THEN Tail(p) ELSE p
    IN body # <<>> /\ \A i \in DOMAIN body : body[i] \in Range(Digits)

RECURSIVE Decimal(_)
Decimal(body) ==
    IF body = <<>> THEN 0
    ELSE 10 * Decimal(SubSeq(body, 1, Len(body) - 1))
         + DigitValue(body[Len(body)])

\* int(p.strip())
IntOfText(p) ==
    IF Head(p) = "-" THEN -Decimal(Tail(p))
    ELSE IF Head(p) = "+" THEN Decimal(Tail(p))
    ELSE Decimal(p)

\* [p.strip() for p in periods_str.split(",") if p.strip()]
Parts(periods_str) ==
    LET stripped == [i \in DOMAIN periods_str.text |->
                        Strip(periods_str.text[i])]
    IN SelectSeq(stripped, LAMBDA p : p # <<>>)

\* sorted(periods) of the parsed parts
ParsedPeriods(periods_str) ==
    SortSeq([i \in DOMAIN Parts(periods_str) |->
                IntOfText(Parts(periods_str)[i])],
            LAMBDA a, b : a < b)

\* class_data[day][class_name] = {"capacity": ..., "periods": ...}
WithClass(db, day, class_name, info) ==
    LET old == IF day \in DOMAIN db THEN db[day] ELSE <<>>
        new == [c \in DOMAIN old \cup {class_name} |->
                   IF c = class_name THEN info ELSE old[c]]
    IN [d \in DOMAIN db \cup {day} |-> IF d = day THEN new ELSE db[d]]

\* a variant that keeps a day without classes
WithoutClassKeepDay(db, day, class_name) ==
    [d \in DOMAIN db |->
        IF d = day
        THEN [c \in DOMAIN db[d] \ {class_name} |-> db[d][c]]
        ELSE db[d]]

\* del class_data[day][class_name], and the day when it is left empty
WithoutClass(db, day, class_name) ==
    LET rest == [c \in DOMAIN db[day] \ {class_name} |-> db[day][c]]
    IN [d \in (IF DOMAIN rest = {} THEN DOMAIN db \ {day} ELSE DOMAIN db) |->
           IF d = day THEN rest ELSE db[d]]

\* save_class_database: written, or (False, message)
SaveClassDatabase(written, msg) ==
    IF written THEN Answer(TRUE, msg)
    ELSE Answer(FALSE, "Error saving database")

\* what add_or_update_class returns, "save" when it reaches the save
AddRejection(day, class_name, capacity, periods_str) ==
    IF Falsy(day) \/ Falsy(class_name) \/ Falsy(capacity)
    THEN Answer(FALSE, "Please fill in all required fields")
    ELSE IF capacity.type # "number"
    THEN Answer(FALSE, "Capacity must be a valid number")
    ELSE IF IntOf(capacity) < 1
    THEN Answer(FALSE, "Capacity must be at least 1")
    ELSE IF periods_str.type # "text" THEN Raise("AttributeError")
    ELSE IF \E i \in DOMAIN Parts(periods_str) :
               ~Numeral(Parts(periods_str)[i])
    THEN Answer(FALSE, "Periods must be comma-separated numbers")
    ELSE IF Parts(periods_str) = <<>>
    THEN Answer(FALSE, "Please provide at least one period")
    ELSE Answer(TRUE, "save")

\* the values typed into the fields of the class forms
DayArguments == {Words("Day1"), Words("Day2"), Words("")}
NameArguments == {Words("Math"), Words("Art")}
CapacityArguments == {Number(0), Number(1), Number(3), Words("ten")}
PeriodsArguments ==
    {Words(<< <<>> >>),
     Words(<< <<" ", "2">>, <<"1">> >>),
     Words(<< <<"3", " ">>, <<" ">> >>),
     Words(<< <<"1">>, <<"x">> >>),
     None}

\* The handler of the "Add / Update Class" button.
AddOrUpdateClass ==
    /\ pc = "gui"
    /\ \E day \in DayArguments \ {Words("")}, class_name \in NameArguments,
          capacity \in CapacityArguments, periods_str \in PeriodsArguments,
          written \in BOOLEAN :
         LET checked == AddRejection(day, class_name, capacity, periods_str)
             info == [capacity |-> IntOf(capacity),
                      periods |-> ParsedPeriods(periods_str)]
         IN /\ class_database' =
                   IF checked.success /\ written
                   THEN WithClass(class_database, day.text, class_name.text,
                                  info)
                   ELSE class_database
            /\ call' = [fn |-> "add_or_update_class",
                        args |-> <<day, class_name, capacity, periods_str>>,
                        returned |->
                            IF checked.success
                            THEN SaveClassDatabase(written,
                                                   "Class added/updated")
                            ELSE checked]
    /\ UNCHANGED <<pc, toolVars, system_config, formatterVars>>

\* The handler of the "Delete Class" button.
DeleteClass ==
    /\ pc = "gui"
    /\ \E day \in DayArguments, class_name \in NameArguments \cup {Words("")},
          written \in BOOLEAN :
         LET found == /\ ~Falsy(day) /\ ~Falsy(class_name)
                      /\ day.text \in DOMAIN class_database
                      /\ class_name.text \in DOMAIN class_database[day.text]
         IN /\ class_database' =
                   IF found /\ written
                   THEN WithoutClass(class_database, day.text, class_name.text)
                   ELSE class_database
            /\ call' = [fn |-> "delete_class",
                        args |-> <<day, class_name>>,
                        returned |->
                            IF Falsy(day) \/ Falsy(class_name)
                            THEN Answer(FALSE, "Please select a day and class name")
                            ELSE IF ~found
                            THEN Answer(FALSE, "Class not found")
                            ELSE SaveClassDatabase(written, "Class deleted")]
    /\ UNCHANGED <<pc, toolVars, system_config, formatterVars>>

NextDatabase == AddOrUpdateClass \/ DeleteClass

(***************************************************************************)
(* StructuredOutputFormatterTool.use and the final report.                 *)
(***************************************************************************)
\* The text given to the formatter: no JSON ("garbage"), a JSON list, or
\* a JSON object whose values are listed in items, in the order of the
\* keys; wrapped says that the object is {"schedule": {...}}.  A student's
\* day is a list of which only the number of entries is kept.
Document(kind, wrapped, items) ==
    [kind |-> kind, wrapped |-> wrapped, items |-> items]

Html(headers, rows) == [type |-> "html", headers |-> headers, rows |-> rows]
FormatError(msg) == [type |-> "error", msg |-> msg]
FormatRaised == [type |-> "raised", msg |-> "exception"]

\* the values that get a row: objects with a key that starts with "Day"
IsStudent(v) == v.type = "dict" /\ DayKeys(v.items) # <<>>

\* iterating days.get(day, []) raises for a value that is no list
RowRaises(v) == \E d \in Range(DayKeys(v.items)) : v.items[d].type # "list"

\* row = [student] + formatted_days; a cell is "(none)" for an empty list
\* (kept as 0) and the joined entries otherwise (kept as their number)
Row(i, v) ==
    [student |-> i,
     cells |-> [j \in DOMAIN DayKeys(v.items) |->
                   v.items[DayKeys(v.items)[j]].size]]

\* the rows of the students of the schedule, in order
Rows(items) ==
    LET students == SelectSeq([i \in DOMAIN items |-> i],
                              LAMBDA i : IsStudent(items[i]))
    IN [k \in DOMAIN students |-> Row(students[k], items[students[k]])]

\* a variant that keeps the first table
KeptFirst(slot, html_output) == IF slot = None THEN html_output ELSE slot

\* StructuredOutputFormatterTool.last_formatted_output = html_output
Stored(slot, html_output) == html_output

\* what use() returns
FormatterReturn(doc) ==
    IF doc.kind = "garbage" THEN FormatError("Error parsing schedule")
    ELSE IF doc.kind # "object" THEN FormatRaised
    ELSE IF \E i \in DOMAIN doc.items :
               IsStudent(doc.items[i]) /\ RowRaises(doc.items[i])
    THEN FormatRaised
    ELSE IF Rows(doc.items) = <<>>
    THEN FormatError("Error: No valid student schedules found to format")
    ELSE IF doc.items[1].type # "dict" THEN FormatRaised
    ELSE Html(DayKeys(doc.items[1].items), Rows(doc.items))

\* the documents the formatter is called with
StudentTwoDays == JDict([d \in {"Day1", "Day2"} |->
                           IF d = "Day1" THEN JList(1) ELSE JList(0)])
StudentOneDay == JDict([d \in {"Day1"} |-> JList(2)])
FormatterInputs ==
    {Document("garbage", FALSE, <<>>),
     Document("list", FALSE, <<>>),
     Document("object", FALSE, <<>>),
     Document("object", FALSE, <<JDict(<<>>)>>),
     Document("object", FALSE, <<StudentTwoDays>>),
     Document("object", TRUE, <<StudentOneDay>>),
     Document("object", FALSE, <<StudentTwoDays, StudentOneDay>>),
     Document("object", FALSE, <<StudentOneDay, JList(1)>>),
     Document("object", FALSE, <<JList(1), StudentTwoDays>>),
     Document("object", FALSE,
              <<JDict([d \in {"Day1"} |-> JNull])>>)}

\* A generate request starts: its locals are fresh, the class variable of
\* the formatter is what the process has left in it.
Generate ==
    /\ pc \in {"idle", "reported"}
    /\ pc' = "formatting"
    /\ format_response' = <<>>
    /\ formatted_table' = None
    /\ UNCHANGED <<toolVars, system_config, class_database, call,
                   last_formatted_output>>

\* The formatter agent calls the tool.
FormatterUse ==
    /\ pc = "formatting"
    /\ Len(format_response) < MaxCalls
    /\ \E doc \in FormatterInputs :
          LET html_output == FormatterReturn(doc)
          IN /\ format_response' = Append(format_response, html_output)
             /\ last_formatted_output' =
                    IF html_output.type = "html"
                    THEN Stored(last_formatted_output, html_output)
                    ELSE last_formatted_output
    /\ UNCHANGED <<pc, toolVars, system_config, class_database, call,
                   formatted_table>>

\* formatted_table = StructuredOutputFormatterTool.last_formatted_output
FinalReport ==
    /\ pc = "formatting"
    /\ formatted_table' = last_formatted_output
    /\ pc' = "reported"
    /\ UNCHANGED <<toolVars, system_config, class_database, call,
                   last_formatted_output, format_response>>

NextFormatter == Generate \/ FormatterUse \/ FinalReport

(***************************************************************************)
(* Inputs.                                                                 *)
(***************************************************************************)
\* the catalog of ClassRetrievalTool
BuiltinCatalog ==
    << Day("Day1", << Offering("Math", 5, <<1, 3, 5>>),
                      Offering("Science", 6, <<2, 4>>),
                      Offering("History", 4, <<1, 4>>),
                      Offering("Art", 5, <<3, 5>>),
                      Offering("Music", 5, <<2, 4, 6>>),
                      Offering("PE", 8, <<1, 3, 5, 6>>) >>),
       Day("Day2", << Offering("Math", 5, <<1, 3, 5>>),
                      Offering("Biology", 6, <<2, 4>>),
                      Offering("English", 6, <<1, 3, 4>>),
                      Offering("ComputerSci", 5, <<2, 5, 6>>),
                      Offering("Music", 5, <<3, 4, 6>>),
                      Offering("PE", 8, <<1, 2, 5>>) >>) >>

\* two days, scarce seats, a name offered on both days, an offering without
\* seats, overlapping periods
CatTight ==
    << Day("Day1", << Offering("Math", 1, <<1, 2>>),
                      Offering("Art", 2, <<1>>) >>),
       Day("Day2", << Offering("Math", 1, <<1>>),
                      Offering("Biology", 0, <<2>>),
                      Offering("PE", 2, <<1, 2>>) >>) >>

\* three days
CatThree ==
    << Day("Day1", << Offering("Math", 2, <<1>>),
                      Offering("Art", 1, <<1>>) >>),
       Day("Day2", << Offering("Biology", 1, <<1, 2>>) >>),
       Day("Day3", << Offering("Math", 1, <<2>>),
                      Offering("PE", 2, <<1, 2>>) >>) >>

\* one day only
CatOne ==
    << Day("Day1", << Offering("Math", 1, <<1>>),
                      Offering("Art", 2, <<1, 2>>),
                      Offering("PE", 2, <<2>>) >>) >>

\* offerings without periods next to scarce ones
CatNoPeriods ==
    << Day("Day1", << Offering("Study", 3, <<>>),
                      Offering("Math", 2, <<1, 2>>),
                      Offering("Art", 1, <<2>>) >>),
       Day("Day2", << Offering("Math", 1, <<1>>),
                      Offering("Lab", 3, <<>>),
                      Offering("PE", 1, <<3>>) >>) >>

\* three days with six, seven and five offerings
CatUneven ==
    << Day("Day1", << Offering("Math", 1, <<1>>),
                      Offering("Science", 1, <<2>>),
                      Offering("History", 1, <<1>>),
                      Offering("Art", 1, <<1>>),
                      Offering("Music", 1, <<2>>),
                      Offering("PE", 1, <<1>>) >>),
       Day("Day2", << Offering("Math", 1, <<1>>),
                      Offering("Biology", 1, <<2>>),
                      Offering("English", 1, <<1>>),
                      Offering("ComputerSci", 1, <<2>>),
                      Offering("Music", 1, <<1>>),
                      Offering("PE", 1, <<2>>),
                      Offering("Drama", 1, <<1>>) >>),
       Day("Day3", << Offering("Math", 1, <<1>>),
                      Offering("Biology", 1, <<2>>),
                      Offering("English", 1, <<1>>),
                      Offering("Music", 1, <<1>>),
                      Offering("PE", 1, <<2>>) >>) >>

Parsed(cd) == [kind |-> "class_data", classes |-> cd]
\* {"students": X, "classes": {...}}
Wrapped(cd) == [kind |-> "wrapped", classes |-> cd]
Unparsable == [kind |-> "garbage", classes |-> <<>>]
\* a catalog document followed by other text
Trailing(cd) == [kind |-> "trailing", classes |-> cd]
\* a number followed by other text
NumberAndText == [kind |-> "number_and_text", classes |-> <<>>]

SmallInputs ==
    {Parsed(CatTight), Parsed(CatThree), Parsed(CatOne), Wrapped(CatTight),
     Unparsable}

ConfigFile(n, c, d, m) ==
    [found |-> TRUE, num_students |-> n, classes_per_student |-> c,
     num_days |-> d, min_classes_per_day |-> m]
NoFile ==
    [found |-> FALSE, num_students |-> 0, classes_per_student |-> 0,
     num_days |-> 0, min_classes_per_day |-> 0]

SmallConfigs ==
    {ConfigFile(n, c, d, m) :
        n \in 1..MaxStudents, c \in {2, 3, 4}, d \in {2, 3}, m \in {1, 2}}

\* {"schedule": ..., "formatted_output": ...} as an object, or the schedule as
\* a string of JSON
OutputInput(k, form, sch, given, text) ==
    [kind |-> k, schedule |-> [form |-> form, value |-> sch],
     formatted_output |-> [given |-> given, text |-> text]]
\* OutputValidatorTool has not been called
NoOutputInput == OutputInput("none", "absent", <<>>, "missing", NoText)

\* the locals of a call of SchedulerTool.use
Locals ==
    [tool_input |-> tool_input, pc |-> pc, class_data |-> class_data,
     config |-> config, days |-> days, capacity_tracker |-> capacity_tracker,
     student |-> student, schedule |-> schedule,
     assigned_classes |-> assigned_classes, day_targets |-> day_targets,
     remaining_classes |-> remaining_classes, day_index |-> day_index,
     classes_list |-> classes_list, total_assigned |-> total_assigned,
     result |-> result]

\* a call that has not started
NewRun(input) ==
    [tool_input |-> input, pc |-> "start", class_data |-> <<>>,
     config |-> ConfigOf(NoFile), days |-> <<>>, capacity_tracker |-> <<>>,
     student |-> 0, schedule |-> <<>>, assigned_classes |-> {},
     day_targets |-> <<>>, remaining_classes |-> 0, day_index |-> 0,
     classes_list |-> <<>>, total_assigned |-> 0, result |-> "none"]

\* there is no second call
NoRun == [NewRun(Unparsable) EXCEPT !.pc = "none"]

\* a variant with one tracker for every call
SharedTracker(own, running) == running

\* capacity_tracker is a local of use(), created by each call: a call that
\* resumes finds the tracker it left, whatever the running call did to its own
OwnTracker(own, running) == own

\* The thread executing one call of use() is suspended and the thread of the
\* other call resumes: the locals are exchanged, the random module and the
\* configuration file are shared.
Switch ==
    /\ other_run.pc # "none"
    /\ other_run' = Locals
    /\ tool_input' = other_run.tool_input
    /\ pc' = other_run.pc
    /\ class_data' = other_run.class_data
    /\ config' = other_run.config
    /\ days' = other_run.days
    /\ capacity_tracker' = OwnTracker(other_run.capacity_tracker,
                                      capacity_tracker)
    /\ student' = other_run.student
    /\ schedule' = other_run.schedule
    /\ assigned_classes' = other_run.assigned_classes
    /\ day_targets' = other_run.day_targets
    /\ remaining_classes' = other_run.remaining_classes
    /\ day_index' = other_run.day_index
    /\ classes_list' = other_run.classes_list
    /\ total_assigned' = other_run.total_assigned
    /\ result' = other_run.result
    /\ UNCHANGED <<config_file, rng, reports, output_tool_input, guiVars>>

NextTwoRuns == NextScheduler \/ Switch

\* the state before use() has run
\* the GUI's files hold the defaults and no handler has been called; the
\* class variable of the formatter is None
NoGui ==
    /\ system_config = DefaultSystemConfig
    /\ class_database = <<>>
    /\ call = NoCall
    /\ last_formatted_output = None
    /\ format_response = <<>>
    /\ formatted_table = None

Blank ==
    /\ NoGui
    /\ output_tool_input = NoOutputInput
    /\ other_run = NoRun
    /\ pc = "start"
    /\ class_data = <<>>
    /\ config = ConfigOf(NoFile)
    /\ days = <<>>
    /\ capacity_tracker = <<>>
    /\ student = 0
    /\ schedule = <<>>
    /\ assigned_classes = {}
    /\ day_targets = <<>>
    /\ remaining_classes = 0
    /\ day_index = 0
    /\ classes_list = <<>>
    /\ total_assigned = 0
    /\ result = "none"
    /\ reports = NoReports

\* small catalogs and configurations, every outcome of the random choices
Init ==
    /\ tool_input \in SmallInputs
    /\ config_file \in SmallConfigs
    /\ rng = 0
    /\ Blank

Spec == Init /\ [][Next]_vars

\* use() is one sequential call: a step of it that can be taken is taken
SpecFair == Init /\ [][Next]_vars /\ WF_vars(NextScheduler)

\* a catalog with offerings that declare no period
InitPeriods ==
    /\ tool_input \in {Parsed(CatNoPeriods), Wrapped(CatNoPeriods)}
    /\ config_file \in SmallConfigs
    /\ rng = 0
    /\ Blank

SpecPeriods == InitPeriods /\ [][Next]_vars

\* the built-in catalog under the default configuration, seeded runs
InitBuiltin ==
    /\ tool_input = Parsed(BuiltinCatalog)
    /\ config_file = NoFile
    /\ rng \in 1..MaxSeed
    /\ Blank

SpecBuiltin == InitBuiltin /\ [][Next]_vars

\* Scenario 1: two days, six offerings a day, ten seats or more each, period
\* sets that do not overlap
Scenario1Distinct ==
    << Day("Day1", << Offering("Math", 10, <<1>>),
                      Offering("Science", 10, <<2>>),
                      Offering("History", 10, <<3>>),
                      Offering("Art", 10, <<4>>),
                      Offering("Music", 10, <<5>>),
                      Offering("PE", 10, <<6>>) >>),
       Day("Day2", << Offering("Biology", 10, <<1>>),
                      Offering("English", 10, <<2>>),
                      Offering("ComputerSci", 10, <<3>>),
                      Offering("Drama", 10, <<4>>),
                      Offering("Chemistry", 10, <<5>>),
                      Offering("Latin", 10, <<6>>) >>) >>

\* the same with the names of the built-in catalog: three names on both days
Scenario1Shared ==
    << Day("Day1", << Offering("Math", 10, <<1>>),
                      Offering("Science", 12, <<2>>),
                      Offering("History", 10, <<3>>),
                      Offering("Art", 11, <<4>>),
                      Offering("Music", 10, <<5>>),
                      Offering("PE", 10, <<6>>) >>),
       Day("Day2", << Offering("Math", 10, <<6>>),
                      Offering("Biology", 10, <<5>>),
                      Offering("English", 12, <<4>>),
                      Offering("ComputerSci", 10, <<3>>),
                      Offering("Music", 10, <<2>>),
                      Offering("PE", 10, <<1>>) >>) >>

\* Scenario 1: every outcome for the first students, seeded runs for all ten
InitScenario1 ==
    /\ tool_input \in {Parsed(Scenario1Distinct), Parsed(Scenario1Shared)}
    /\ \/ rng = 0 /\ config_file = ConfigFile(MaxFree, 5, 2, 1)
       \/ rng \in 1..MaxSeed /\ config_file = NoFile
    /\ Blank

SpecScenario1 == InitScenario1 /\ [][Next]_vars

\* Two calls of use() on the same small catalog, written in two ways, whose
\* steps interleave in any order.
TwoRunsCatalogs == {CatOne, CatTight}
InitTwoRuns ==
    /\ \E cd \in TwoRunsCatalogs :
           /\ tool_input = Parsed(cd)
           /\ other_run = NewRun(Wrapped(cd))
           /\ config_file = ConfigFile(2, 2, Len(cd), 1)
    /\ rng = 0
    /\ pc = "start"
    /\ class_data = <<>>
    /\ config = ConfigOf(NoFile)
    /\ days = <<>>
    /\ capacity_tracker = <<>>
    /\ student = 0
    /\ schedule = <<>>
    /\ assigned_classes = {}
    /\ day_targets = <<>>
    /\ remaining_classes = 0
    /\ day_index = 0
    /\ classes_list = <<>>
    /\ total_assigned = 0
    /\ result = "none"
    /\ reports = NoReports
    /\ output_tool_input = NoOutputInput
    /\ NoGui

SpecTwoRuns == InitTwoRuns /\ [][NextTwoRuns]_vars

\* The validators applied to a document of any shape: one student with up to
\* MaxDayLen entries a day (on Day3 all of period 1), or two students with at
\* most one entry a day; a day key may be missing.
CheckEntries ==
    {[class |-> "Math", period |-> 1], [class |-> "Math", period |-> 2],
     [class |-> "Art", period |-> 1]}

Lists(n, E) == UNION {[1..k -> E] : k \in 0..n}

DayDicts(n, E) ==
    UNION {{f \in [D -> Lists(n, E)] :
               "Day3" \in D => \A i \in DOMAIN f["Day3"] : f["Day3"][i].period = 1}
           : D \in SUBSET Range(DayNames)}

Allocations ==
    {<<a>> : a \in DayDicts(MaxDayLen, CheckEntries)}
    \cup {<<a, b>> : a, b \in DayDicts(1, {[class |-> "Math", period |-> 1],
                                          [class |-> "Art", period |-> 1]})}

CheckCatalogs == {CatTight, CatThree, CatUneven, Scenario1Shared}

\* The text handed over is a JSON document, a JSON document followed by
\* other text, a number followed by other text, or no JSON at all.
InitCheck ==
    /\ \/ /\ result = "schedule"
          /\ class_data \in CheckCatalogs
          /\ tool_input = Parsed(class_data)
          /\ schedule \in Allocations
       \/ /\ result = "trailing"
          /\ class_data = CatTight
          /\ tool_input = Trailing(class_data)
          /\ schedule \in {<<>>} \cup
                 {<<a>> : a \in DayDicts(MaxDayLen,
                                         {[class |-> "Math", period |-> 1]})}
       \/ /\ result = "number_and_text"
          /\ class_data = <<>>
          /\ tool_input = NumberAndText
          /\ schedule = <<>>
       \/ /\ result = "garbage"
          /\ class_data = <<>>
          /\ tool_input = Unparsable
          /\ schedule = <<>>
    /\ config_file = NoFile
    /\ config \in {ConfigOf(ConfigFile(2, c, Len(class_data), 1)) : c \in {2, 3}}
    /\ pc = "returned"
    /\ rng = 0
    /\ days = DaysOf(class_data)
    /\ capacity_tracker = <<>>
    /\ student = 0
    /\ assigned_classes = {}
    /\ day_targets = <<>>
    /\ remaining_classes = 0
    /\ day_index = 0
    /\ classes_list = <<>>
    /\ total_assigned = 0
    /\ reports = NoReports
    /\ output_tool_input = NoOutputInput
    /\ other_run = NoRun
    /\ NoGui

SpecCheck == InitCheck /\ [][NextValidators]_vars

\* The Output Validator applied to a request of any shape.  A rendered text
\* is empty, 99 or 100 characters long, with any of the substrings the tool
\* looks for; the key may be missing or its value null.
OutMarkers == {"Student", "Day 1", "Day2", "|", "(P"}
OutTexts ==
    {NoText} \cup {Text(n, m) : n \in {99, 100}, m \in SUBSET OutMarkers}
FewTexts == {NoText, Text(99, {"Student"}), Text(100, OutMarkers)}

\* one student's days: no day, Day1, Day1 and Day2, or all three, each a list
\* of up to MaxDayLen entries
StudentDicts ==
    UNION {{JDict(f) : f \in [D -> {JList(k) : k \in 0..MaxDayLen}]}
           : D \in {{}, {"Day1"}, {"Day1", "Day2"}, {"Day1", "Day2", "Day3"}}}
MoreStudents ==
    {JDict(<<>>), JDict([d \in {"Day1", "Day2"} |-> JList(1)]),
     JDict([d \in {"Day1", "Day2", "Day3"} |-> JList(1)])}
\* up to MaxOutStudents students, the ones after the first all alike
OutSchedules ==
    {<<>>} \cup {<<a>> \o [i \in 1..k |-> b] :
                    a \in StudentDicts, b \in MoreStudents,
                    k \in 0..(MaxOutStudents - 1)}
\* a student whose value is not an object, a day whose value is not a list
Malformed ==
    {<<JNumberValue>>,
     <<JDict([d \in {"Day1", "Day2"} |-> JList(1)]), JNumberValue>>,
     <<JDict([d \in {"Day1", "Day2"} |->
                 IF d = "Day1" THEN JNumber ELSE JList(1)])>>,
     <<JDict([d \in {"Day1", "Day2"} |->
                 IF d = "Day2" THEN JNull ELSE JList(1)])>>,
     <<JDict([d \in {"Day1", "Day2", "Day3"} |->
                 IF d = "Day3" THEN JNumber ELSE JList(1)])>>}

OutputInputs ==
    {OutputInput("object", "object", sch, "text", t) :
        sch \in OutSchedules, t \in OutTexts}
    \cup {OutputInput("object", "object", sch, given, NoText) :
             sch \in OutSchedules, given \in {"missing", "null"}}
    \cup {OutputInput(k, "string", <<a>>, "text", t) :
             k \in {"object", "trailing"}, a \in StudentDicts, t \in FewTexts}
    \cup {OutputInput("object", form, <<>>, "text", t) :
             form \in {"bad_string", "absent"}, t \in OutTexts}
    \cup {OutputInput("object", form, sch, "text", t) :
             form \in {"object", "string"}, sch \in Malformed, t \in FewTexts}
    \cup {OutputInput(k, "absent", <<>>, "missing", NoText) :
             k \in {"garbage", "list", "number_and_text"}}

OutConfigs ==
    {NoFile} \cup {ConfigFile(n, c, c, 1) :
                      n \in {1, MaxOutStudents}, c \in {2, 3}}

InitOutput ==
    /\ output_tool_input \in OutputInputs
    /\ config_file \in OutConfigs
    /\ pc = "validate_output"
    /\ tool_input = Unparsable
    /\ rng = 0
    /\ class_data = <<>>
    /\ config = ConfigOf(NoFile)
    /\ days = <<>>
    /\ capacity_tracker = <<>>
    /\ student = 0
    /\ schedule = <<>>
    /\ assigned_classes = {}
    /\ day_targets = <<>>
    /\ remaining_classes = 0
    /\ day_index = 0
    /\ classes_list = <<>>
    /\ total_assigned = 0
    /\ result = "none"
    /\ reports = NoReports
    /\ other_run = NoRun
    /\ NoGui

SpecOutput == InitOutput /\ [][NextOutput]_vars

\* configurations the GUI starts from: the defaults, the smallest one, one
\* at the boundary
SavedConfigs ==
    {DefaultSystemConfig,
     [num_students |-> 1, classes_per_student |-> 1, num_days |-> 1,
      periods_per_day |-> 1, min_classes_per_day |-> 1],
     [num_students |-> 2, classes_per_student |-> 4, num_days |-> 2,
      periods_per_day |-> 6, min_classes_per_day |-> 2]}

\* the state of the tools while the GUI's handlers run
Idle ==
    /\ tool_input = Unparsable
    /\ config_file = NoFile
    /\ rng = 0
    /\ class_data = <<>>
    /\ config = ConfigOf(NoFile)
    /\ days = <<>>
    /\ capacity_tracker = <<>>
    /\ student = 0
    /\ schedule = <<>>
    /\ assigned_classes = {}
    /\ day_targets = <<>>
    /\ remaining_classes = 0
    /\ day_index = 0
    /\ classes_list = <<>>
    /\ total_assigned = 0
    /\ result = "none"
    /\ reports = NoReports
    /\ output_tool_input = NoOutputInput
    /\ other_run = NoRun

InitConfig ==
    /\ Idle
    /\ pc = "gui"
    /\ system_config \in SavedConfigs
    /\ class_database = <<>>
    /\ call = NoCall
    /\ last_formatted_output = None
    /\ format_response = <<>>
    /\ formatted_table = None

SpecConfig == InitConfig /\ [][NextConfig]_vars

\* class databases the GUI starts from: none, and one with two days
Databases ==
    {<<>>,
     [d \in {"Day1", "Day2"} |->
         IF d = "Day1"
         THEN [c \in {"Math", "Art"} |->
                  [capacity |-> 5, periods |-> <<1, 3>>]]
         ELSE [c \in {"Math"} |-> [capacity |-> 2, periods |-> <<4>>]]]}

InitDatabase ==
    /\ Idle
    /\ pc = "gui"
    /\ system_config = DefaultSystemConfig
    /\ class_database \in Databases
    /\ call = NoCall
    /\ last_formatted_output = None
    /\ format_response = <<>>
    /\ formatted_table = None

SpecDatabase == InitDatabase /\ [][NextDatabase]_vars

\* the process has started and no request has been made
InitFormatter ==
    /\ Idle
    /\ pc = "idle"
    /\ NoGui

SpecFormatter == InitFormatter /\ [][NextFormatter]_vars

(***************************************************************************)
(* The claims.                                                             *)
(***************************************************************************)
Returned == result = "schedule"

\* the entries of (day, class_name) over all students
SeatsTaken(day, class_name) ==
    Cardinality({e \in Range(AllEntries(schedule)) :
                    e.day = day /\ e.class = class_name})

Capacity(k) == Info(class_data, k[1], k[2]).capacity

Total(s) == SumLen(schedule[s], DOMAIN schedule[s])

\* the fallback fill pass has added an entry for the current student
FilledByFallback ==
    /\ pc \in {"fill", "students", "returned"}
    /\ student >= 1
    /\ \E d \in Range(days) : Len(schedule[student][d]) > day_targets[d]

\* C1: in the returned Allocation the entries of each (day, offering), summed
\* over the students, are at most the offering's capacity on that day; an
\* offering with capacity 0 has no entry.
C1_CapacityRespected ==
    Returned => \A k \in Keys(class_data) : SeatsTaken(k[1], k[2]) <= Capacity(k)

\* C1 happens: a run has returned in which an offering without seats exists, an
\* offering with seats is full, and a student is left short.
C1_Witness ==
    /\ Returned
    /\ \E k \in Keys(class_data) : Capacity(k) = 0
    /\ \E k \in Keys(class_data) : Capacity(k) > 0 /\ SeatsTaken(k[1], k[2]) = Capacity(k)
    /\ \E s \in 1..Len(schedule) : Total(s) < config.classes_per_student

\* C2: in the returned Allocation no student holds an offering name twice
\* across the days, whichever pass added the entries.
C2_UniqueNames ==
    Returned =>
        \A s \in 1..Len(schedule) :
            LET e == EntriesOf(schedule, s)
            IN \A i, j \in DOMAIN e : i # j => e[i].class # e[j].class

\* C2 happens: the last student got an entry from the fallback pass and holds
\* a name that another day still offers with a seat left.
C2_Witness ==
    /\ Returned
    /\ FilledByFallback
    /\ \E e \in Range(EntriesOf(schedule, student)) :
           \E k \in Keys(class_data) :
               k[2] = e.class /\ k[1] # e.day /\ capacity_tracker[k] > 0

\* C3: in the returned Allocation no student has two entries with the same
\* period on one day, whichever pass added the entries.
C3_NoPeriodConflict ==
    Returned =>
        \A s \in 1..Len(schedule) : \A d \in DOMAIN schedule[s] :
            \A i, j \in DOMAIN schedule[s][d] :
                i # j => schedule[s][d][i].period # schedule[s][d][j].period

\* C3 happens: the last student got an entry from the fallback pass and holds,
\* on one day, two offerings whose period lists overlap.
C3_Witness ==
    /\ Returned
    /\ FilledByFallback
    /\ \E d \in Range(days) : \E i, j \in DOMAIN schedule[student][d] :
           /\ i # j
           /\ Range(Info(class_data, d, schedule[student][d][i].class).periods)
                \cap Range(Info(class_data, d, schedule[student][d][j].class).periods)
                # {}

\* C4: from one step of a run to the next no value of the capacity tracker
\* increases, and no value is ever negative.
C4_TrackerMonotone ==
    [][/\ \A k \in DOMAIN capacity_tracker' : capacity_tracker'[k] >= 0
       /\ \A k \in DOMAIN capacity_tracker :
              /\ k \in DOMAIN capacity_tracker'
              /\ capacity_tracker'[k] <= capacity_tracker[k]]_vars

\* C4 happens: seats were taken until an offering was full, and a later
\* student was left short.
C4_Witness ==
    /\ pc = "fill"
    /\ student >= 2
    /\ total_assigned < config.classes_per_student
    /\ FillablePositions = {}
    /\ \E k \in DOMAIN capacity_tracker :
           capacity_tracker[k] = 0 /\ Capacity(k) > 0

\* the configuration satisfies its invariant and names the days of the catalog
ConfigFits ==
    /\ config.num_days = Len(days)
    /\ config.classes_per_student >= config.min_classes_per_day * config.num_days

\* C5: a student who ends the run with classes_per_student entries has at
\* least min_classes_per_day entries on every day of the catalog (stated here
\* for the configurations that fit the catalog only).
C5_MinimumPerDay ==
    (Returned /\ ConfigFits) =>
        \A s \in 1..Len(schedule) :
            Total(s) = config.classes_per_student =>
                \A d \in Range(days) :
                    Len(schedule[s][d]) >= config.min_classes_per_day

\* C6: with the built-in catalog and the default configuration every student
\* gets exactly 5 classes and at least 1 class on each of the 2 days.
C6_BuiltinComplete ==
    Returned =>
        \A s \in 1..Len(schedule) :
            /\ Total(s) = 5
            /\ \A d \in Range(days) : Len(schedule[s][d]) >= 1

\* C7: on a Scenario 1 catalog with 5 classes per student and a minimum of 1 a
\* day, the six checkers all report valid with empty diagnostic lists.
C7_Scenario1AllValid ==
    pc = "period_checked" =>
        /\ reports.number.valid /\ reports.number.invalid_students = <<>>
        /\ reports.unique.valid /\ reports.unique.invalid_students = <<>>
        /\ reports.attendance.valid /\ reports.attendance.exceeded_classes = <<>>
        /\ reports.validator.valid /\ reports.validator.invalid_days = <<>>
        /\ reports.counter.valid /\ reports.counter.invalid_entries = <<>>
        /\ reports.period.valid /\ reports.period.conflicts = <<>>

\* C7 happens: all six checkers have run on the schedule of ten students, one
\* of whom holds four classes on one day.
C7_Witness ==
    /\ pc = "period_checked"
    /\ Len(schedule) = 10
    /\ \A s \in 1..Len(schedule) : Total(s) = 5
    /\ \E s \in 1..Len(schedule) : \E d \in Range(days) : Len(schedule[s][d]) = 4

\* C8: when the configuration counts a day that the catalog does not have,
\* the run ends with an error instead of an Allocation.
C8_MissingDayFails ==
    (/\ pc = "returned"
     /\ tool_input.kind # "garbage"
     /\ \E i \in 1..LoadConfig(config_file).num_days :
            DayNames[i] \notin Range(DaysOf(tool_input.classes)))
        => result = "error"

\* C9: the total-count checker reports valid exactly when every student's
\* entries over all days number classes_per_student, and lists exactly the
\* students for whom they do not.
C9_TotalCountChecker ==
    (pc = "number_checked" /\ RawDecodes(result)) =>
        LET off == {s \in 1..Len(schedule) : Total(s) # config.classes_per_student}
        IN /\ reports.number.valid <=> off = {}
           /\ Range(reports.number.invalid_students) = off

\* C10: the uniqueness checker reports valid exactly when no student has an
\* offering name repeated anywhere across the days, and lists exactly the
\* students with a repeat.
C10_UniquenessChecker ==
    (pc = "unique_checked" /\ RawDecodes(result)) =>
        LET rep == {s \in 1..Len(schedule) :
                       \E i, j \in DOMAIN EntriesOf(schedule, s) :
                           /\ i # j
                           /\ EntriesOf(schedule, s)[i].class
                                = EntriesOf(schedule, s)[j].class}
        IN /\ reports.unique.valid <=> rep = {}
           /\ Range(reports.unique.invalid_students) = rep

\* the number of entries of (day, class_name) in the document, repeats included
EntryCount(day, class_name) ==
    Cardinality(UNION {{<<s, i>> : i \in {j \in DOMAIN schedule[s][day] :
                                      schedule[s][day][j].class = class_name}}
                       : s \in {t \in 1..Len(schedule) :
                                   day \in DOMAIN schedule[t]}})

\* the (day, offering) pairs of the catalog with more entries than seats
Exceeding == {k \in Keys(class_data) : EntryCount(k[1], k[2]) > Capacity(k)}

\* C11: the capacity checker reports valid exactly when no (day, offering) of
\* the catalog has more entries than its declared capacity, and
\* exceeded_classes holds exactly one (day, offering, count, capacity) tuple
\* for each pair that has.
C11_CapacityChecker ==
    (pc = "attendance_checked" /\ RawDecodes(result)) =>
        /\ reports.attendance.valid <=> Exceeding = {}
        /\ Len(reports.attendance.exceeded_classes) = Cardinality(Exceeding)
        /\ Range(reports.attendance.exceeded_classes)
             = {<<k[1], k[2], EntryCount(k[1], k[2]), Capacity(k)>> :
                    k \in Exceeding}

\* C11 happens: the checker has run on a document in which one offering is
\* over its capacity, another is exactly full, and an entry names a pair the
\* catalog does not declare.
C11_Witness ==
    /\ pc = "attendance_checked"
    /\ result = "schedule"
    /\ Exceeding # {}
    /\ \E k \in Keys(class_data) :
           Capacity(k) > 0 /\ EntryCount(k[1], k[2]) = Capacity(k)
    /\ \E e \in Range(AllEntries(schedule)) :
           ~HasClass(class_data, e.day, e.class)

\* the entries that name an offering the catalog does not offer on their day,
\* in document order
NotOfferedThatDay ==
    SelectSeq(AllEntries(schedule),
              LAMBDA e : ~HasClass(class_data, e.day, e.class))

\* C12: the membership checker reports valid exactly when every entry names
\* an offering the catalog has on the day of the entry, and lists
\* (student, day, offering) for every entry that does not, also when the
\* catalog has the offering on another day.
C12_MembershipChecker ==
    (pc = "counter_checked" /\ RawDecodes(result)) =>
        /\ reports.counter.valid <=> NotOfferedThatDay = <<>>
        /\ reports.counter.invalid_entries
             = [i \in DOMAIN NotOfferedThatDay |->
                   <<NotOfferedThatDay[i].student, NotOfferedThatDay[i].day,
                     NotOfferedThatDay[i].class>>]

\* the (student, day) pairs with two entries of the same period, whatever the
\* day is called
PeriodClashes ==
    {<<s, d>> \in (1..Len(schedule)) \X Range(DayNames) :
        /\ d \in DOMAIN schedule[s]
        /\ \E i, j \in DOMAIN schedule[s][d] :
               i # j /\ schedule[s][d][i].period = schedule[s][d][j].period}

\* C13: the period-conflict checker reports valid exactly when no student has
\* two entries with the same period on one day, for every day of the
\* document; each conflict names a student, a day, a period and two entries
\* of that student on that day with that period; total_conflicts is the
\* length of the conflicts list.
C13_PeriodChecker ==
    (pc = "period_checked" /\ RawDecodes(result)) =>
        /\ reports.period.valid <=> PeriodClashes = {}
        /\ reports.period.total_conflicts = Len(reports.period.conflicts)
        /\ \A n \in DOMAIN reports.period.conflicts :
               LET c == reports.period.conflicts[n]
                   list == schedule[c.student][c.day]
               IN \E i, j \in DOMAIN list :
                      /\ i < j
                      /\ list[i].period = c.period /\ list[j].period = c.period
                      /\ c.classes = <<list[i].class, list[j].class>>

\* the days of the catalog whose number of distinct offerings is not the
\* expected one, which is 6, in catalog order
OfferingCountOff ==
    SelectSeq(DaysOf(class_data), LAMBDA d :
        Cardinality(Range(ClassNames(class_data, d))) # 6)

\* C14: the offerings-per-day checker reports valid exactly when every day of
\* the catalog has exactly the expected number (6) of distinct offerings, and
\* invalid_days lists exactly the days whose count differs.
C14_OfferingsPerDay ==
    (pc = "validator_checked" /\ RawDecodes(tool_input.kind)) =>
        /\ reports.validator.valid <=> OfferingCountOff = <<>>
        /\ reports.validator.invalid_days = OfferingCountOff

\* C14 happens: the checker has run on a catalog with a day of six offerings,
\* a day with more and a day with fewer.
C14_Witness ==
    /\ pc = "validator_checked"
    /\ result = "schedule"
    /\ \E a, b, c \in Range(DaysOf(class_data)) :
           /\ Len(ClassNames(class_data, a)) = 6
           /\ Len(ClassNames(class_data, b)) > 6
           /\ Len(ClassNames(class_data, c)) < 6
    /\ reports.validator.invalid_days # <<>>

\* json.loads accepts the text: it is a JSON document and nothing else
IsJson(text) == text \in {"schedule", "class_data", "wrapped"}

\* the report exists, says valid false, carries an error field and an empty
\* diagnostic list
Rejected(report, list) ==
    /\ ~report.valid
    /\ "error" \in DOMAIN report
    /\ report[list] = <<>>

\* C15: handed a text that cannot be parsed as JSON, each of the six
\* validators returns a report with valid false, an error field and an empty
\* diagnostic list, and none raises.
C15_UnparsableRejected ==
    /\ ~IsJson(result) => pc # "raised"
    /\ (pc = "period_checked" /\ ~IsJson(result) /\ ~IsJson(tool_input.kind)) =>
           /\ Rejected(reports.number, "invalid_students")
           /\ Rejected(reports.unique, "invalid_students")
           /\ Rejected(reports.attendance, "exceeded_classes")
           /\ Rejected(reports.validator, "invalid_days")
           /\ Rejected(reports.counter, "invalid_entries")
           /\ Rejected(reports.period, "conflicts")

\* OutputValidatorTool.use has returned a report
Scored == pc = "output_validated"

\* the report was built by the scoring code, not by an except branch
ScoredInFull == Scored /\ "student_count" \in DOMAIN reports.output

\* C16: the clarity score is 100 less the same penalty (100/15) for every
\* entry of the issues list, not below 0: it lies in 0..100, it is 100
\* exactly when the issues list is empty, which is exactly when valid is
\* true, and a report never scores above what fewer issues score.  The
\* reported score is the exact one rounded to a tenth of a point
\* (clarity_score is in tenths).
C16_ClarityScore ==
    Scored =>
        LET r == reports.output
            n == Len(r.issues)
        IN /\ r.clarity_score \in 0..1000
           /\ r.clarity_score = 1000 <=> n = 0
           /\ r.valid <=> n = 0
           /\ \A m \in 0..n :
                  m <= 15 => r.clarity_score <= 1000 - (200 * m) \div 3
           /\ ScoredInFull =>
                  /\ n <= 15 => 3 * r.clarity_score - (3000 - 200 * n) \in -1..1
                  /\ n >= 15 => r.clarity_score = 0

\* C16 happens: a report with more than 15 issues and the score 0 has been
\* returned.
C16_Witness ==
    /\ ScoredInFull
    /\ Len(reports.output.issues) > max_issues
    /\ reports.output.clarity_score = 0

\* the request decoded to an object and use() has returned or raised
Answered ==
    /\ pc \in {"output_validated", "raised"}
    /\ DecodesDict(output_tool_input.kind)

RenderedText == FormattedOutputOf(output_tool_input)

IssueKinds == {reports.output.issues[i].issue : i \in DOMAIN reports.output.issues}

\* C17: a rendered text without a table-structure marker is counted as an
\* issue: the issues list has an entry for it, one entry more than for the
\* same request whose text has a marker.
C17_TableMarkerCounted ==
    (ScoredInFull /\ output_tool_input.formatted_output.given = "text"
       /\ ~HasTableStructure(RenderedText)) =>
        /\ "no_table_structure" \in IssueKinds
        /\ Len(reports.output.issues)
             = 1 + Len(OutputIssues(ScheduleOf(output_tool_input),
                                   Text(RenderedText.length,
                                        RenderedText.contains \cup {"|"}),
                                   LoadConfig(config_file)))

\* C18: when the rendered text is shorter than 100 characters, empty or
\* absent, a report is returned whose issues list has the 'missing or too
\* short' entry, with valid false and a clarity score below 100.
C18_ShortTextReported ==
    (Answered /\ RenderedText.length < 100) =>
        /\ Scored
        /\ "too_short" \in IssueKinds
        /\ ~reports.output.valid
        /\ reports.output.clarity_score < 1000

\* C19: the Output Validator never fails: whatever it is handed, use()
\* returns a report and does not raise.
C19_NeverRaises == pc # "raised"

\* the entries of (day, class_name) in the schedule of a call
SeatsTakenIn(run, day, class_name) ==
    Cardinality({e \in Range(AllEntries(run.schedule)) :
                    e.day = day /\ e.class = class_name})

\* the schedule a call has returned respects the capacities of its catalog
RespectsCapacity(run) ==
    run.result = "schedule" =>
        \A k \in Keys(run.class_data) :
            SeatsTakenIn(run, k[1], k[2])
                <= Info(run.class_data, k[1], k[2]).capacity

\* the tracker of the call that was given this input
TrackerOf(input) ==
    IF tool_input = input THEN capacity_tracker ELSE other_run.capacity_tracker

\* C20: of two calls whose steps interleave in any order, each has its own
\* capacity tracker: the tracker of a call changes only in a step of that
\* call, and the schedule each call returns respects the capacities.
C20_SeparateTrackers ==
    /\ [](RespectsCapacity(Locals) /\ RespectsCapacity(other_run))
    /\ [][\A input \in {tool_input, other_run.tool_input} :
             TrackerOf(input)' # TrackerOf(input) =>
                 (tool_input = input /\ tool_input' = input)]_vars

\* C20 happens: both calls have returned, each after steps of the other,
\* and an offering with a single seat is held in both schedules.
C20_Witness ==
    /\ result = "schedule" /\ other_run.result = "schedule"
    /\ \E k \in Keys(class_data) :
           /\ Capacity(k) = 1
           /\ SeatsTakenIn(Locals, k[1], k[2]) = 1
           /\ SeatsTakenIn(other_run, k[1], k[2]) = 1

\* the configuration is a Configuration: positive values that satisfy
\* classes_per_student >= min_classes_per_day * num_days
ValidConfiguration ==
    /\ config.num_students >= 1 /\ config.classes_per_student >= 1
    /\ config.num_days >= 1 /\ config.min_classes_per_day >= 1
    /\ config.classes_per_student >= config.min_classes_per_day * config.num_days

\* the day targets of the current student are complete
TargetsSet == pc \in {"scan", "days", "fill"} /\ student >= 1

RECURSIVE SumOver(_, _)
SumOver(f, keys) ==
    IF keys = {} THEN 0
    ELSE LET k == CHOOSE x \in keys : TRUE
         IN f[k] + SumOver(f, keys \ {k})

\* C23: the day targets of a student give every day at least
\* min_classes_per_day and sum to classes_per_student; when
\* classes_per_student = min_classes_per_day * day_count every target is
\* exactly min_classes_per_day.
C23_DayTargets ==
    (TargetsSet /\ ValidConfiguration) =>
        /\ \A d \in Range(days) : day_targets[d] >= config.min_classes_per_day
        /\ SumOver(day_targets, Range(days)) = config.classes_per_student
        /\ config.classes_per_student
               = config.min_classes_per_day * config.num_days
             => \A d \in Range(days) :
                    day_targets[d] = config.min_classes_per_day

\* the processing of the current student has just ended
StudentDone == pc = "students" /\ student >= 1

\* C24: exhaustion of seats or periods is no error; when the processing of a
\* student ends, the student has classes_per_student entries or no (day,
\* offering) is left whose name the student does not hold, that has a seat
\* and an allowed period the student has free that day.
C24_UnderTargetOnlyWhenStuck ==
    /\ result = "error" => tool_input.kind = "garbage"
    /\ (StudentDone /\ ValidConfiguration) =>
           \/ Total(student) = config.classes_per_student
           \/ FillablePositions = {}

\* one iteration of the fallback loop
FillIteration ==
    pc = "fill" =>
        \/ /\ pc' = "fill"
           /\ total_assigned' = total_assigned + 1
           /\ SumLen(schedule'[student], Range(days))
                  = SumLen(schedule[student], Range(days)) + 1
           /\ total_assigned' <= config.classes_per_student
        \/ /\ pc' = "students"
           /\ UNCHANGED <<schedule, capacity_tracker, total_assigned>>
           /\ \/ total_assigned >= config.classes_per_student
              \/ FillablePositions = {}

\* C25: every run of the scheduler returns; an iteration of the fallback loop
\* adds exactly one entry and raises the total by one, or ends the loop with
\* nothing assigned.
C25_Terminates == <>(result # "none") /\ [][FillIteration]_vars

\* a run has returned whose last student left the fallback loop under target
C25_Witness ==
    /\ Returned /\ student >= 2
    /\ total_assigned < config.classes_per_student
    /\ total_assigned > 0

\* C26: with a configuration that satisfies classes_per_student >=
\* min_classes_per_day * num_days, and any catalog, no student has more than
\* classes_per_student entries.
C26_NeverOverTarget ==
    ValidConfiguration =>
        \A s \in 1..Len(schedule) : Total(s) <= config.classes_per_student

\* declared capacity minus tracker value is the number of entries
Accounted ==
    \A k \in DOMAIN capacity_tracker :
        Capacity(k) - capacity_tracker[k] = EntryCount(k[1], k[2])

\* a step that changes the tracker takes one seat of one (day, offering) and
\* appends one entry for it; a step that appends an entry changes the tracker
TrackerStep ==
    \/ pc = "start"
    \/ /\ UNCHANGED capacity_tracker
       /\ \A k \in DOMAIN capacity_tracker :
              EntryCount(k[1], k[2])' = EntryCount(k[1], k[2])
    \/ \E k \in DOMAIN capacity_tracker :
          /\ capacity_tracker' = [capacity_tracker EXCEPT ![k] = @ - 1]
          /\ EntryCount(k[1], k[2])' = EntryCount(k[1], k[2]) + 1
          /\ Len(schedule') = Len(schedule)
          /\ SumLen(schedule'[student], Range(days))
                 = SumLen(schedule[student], Range(days)) + 1

\* C27: at every point of a run the declared capacity of a (day, offering)
\* minus its tracker value is the number of entries for it; an assignment
\* takes 1 from exactly one tracker value and nothing else changes the
\* tracker.
C27_TrackerAccounting == [](Accounted) /\ [][TrackerStep]_vars

\* an offering has given away seats and still has one
C27_Witness ==
    /\ pc \in {"scan", "fill"}
    /\ \E k \in DOMAIN capacity_tracker :
           /\ capacity_tracker[k] >= 1
           /\ capacity_tracker[k] < Capacity(k)
    /\ \E k \in DOMAIN capacity_tracker :
           capacity_tracker[k] = 0 /\ Capacity(k) >= 1

\* the entries of the schedule, with their student and day
Entries ==
    UNION {{[student |-> s, day |-> d, class |-> schedule[s][d][i].class,
             period |-> schedule[s][d][i].period]
            : i \in DOMAIN schedule[s][d]}
           : <<s, d>> \in {x \in (1..Len(schedule)) \X Range(DayNames) :
                              x[2] \in DOMAIN schedule[x[1]]}}

\* C28: every entry names an offering the catalog has on the entry's day and
\* a period among that offering's periods; an offering without periods is
\* never assigned.
C28_OfferedAndAllowed ==
    \A e \in Entries :
        /\ HasClass(class_data, e.day, e.class)
        /\ e.period \in Range(Info(class_data, e.day, e.class).periods)
        /\ Info(class_data, e.day, e.class).periods # <<>>

\* a student is returned under target while an offering without periods still
\* has every seat
C28_Witness ==
    /\ Returned
    /\ Entries # {}
    /\ \E s \in 1..Len(schedule) : Total(s) < config.classes_per_student
    /\ \E k \in DOMAIN capacity_tracker :
           /\ Info(class_data, k[1], k[2]).periods = <<>>
           /\ capacity_tracker[k] = Capacity(k)
           /\ Capacity(k) >= 1

\* C29: the returned Allocation has exactly the students Student1 ..
\* Student<num_students>, and each of them has a key for every day of the
\* catalog, with an empty list where nothing was assigned.
C29_AllocationShape ==
    Returned =>
        /\ Len(schedule) = config.num_students
        /\ \A s \in 1..Len(schedule) :
               /\ DOMAIN schedule[s] = Range(DaysOf(class_data))
               /\ \A d \in DOMAIN schedule[s] :
                      schedule[s][d] \in Seq([class : STRING, period : Nat])

\* the first students took every seat of a catalog of several days and the
\* last one is returned with an empty list for each day
C29_Witness ==
    /\ Returned
    /\ Len(schedule) = config.num_students
    /\ Len(days) >= 2
    /\ Total(1) > 0
    /\ Total(Len(schedule)) = 0
    /\ \A k \in DOMAIN capacity_tracker : capacity_tracker[k] = 0

\* the conditions of a Configuration
Satisfies(cfg) ==
    /\ cfg.num_students >= 1 /\ cfg.classes_per_student >= 1
    /\ cfg.num_days >= 1 /\ cfg.periods_per_day >= 1
    /\ cfg.min_classes_per_day >= 1
    /\ cfg.classes_per_student >= cfg.min_classes_per_day * cfg.num_days

\* the last call was update_system_config with numbers that, as whole
\* numbers, violate a condition
ViolatingCall(c) ==
    /\ c.fn = "update_system_config"
    /\ \A k \in DOMAIN c.args : c.args[k].type = "number"
    /\ ~Satisfies([k \in DOMAIN c.args |-> IntOf(c.args[k])])

RejectedCall(c) == c.returned.outcome = "returned" /\ ~c.returned.success

\* C21: after any sequence of update_system_config calls the saved
\* configuration has all five values at least 1 and classes_per_student >=
\* min_classes_per_day * num_days; a call whose values violate a condition
\* is rejected and leaves the saved configuration unchanged.
C21_SavedConfiguration ==
    /\ [](Satisfies(system_config))
    /\ [][ViolatingCall(call') =>
             RejectedCall(call') /\ system_config' = system_config]_vars

\* a violating call was rejected after an accepted call had saved a
\* configuration at the boundary
C21_Witness ==
    /\ ViolatingCall(call) /\ RejectedCall(call)
    /\ system_config \notin SavedConfigs
    /\ system_config.classes_per_student
           = system_config.min_classes_per_day * system_config.num_days
    /\ system_config.num_days = 2

\* every offering has a capacity of at least 1 and a period; no day is empty
SatisfiesDatabase(db) ==
    \A d \in DOMAIN db :
        /\ DOMAIN db[d] # {}
        /\ \A c \in DOMAIN db[d] :
               /\ db[d][c].capacity >= 1
               /\ Len(db[d][c].periods) >= 1

\* C22: after any sequence of add_or_update_class and delete_class calls
\* every offering of the class database has capacity at least 1 and at least
\* one period, and no day is left without offerings; a rejected call leaves
\* the database unchanged.
C22_ClassDatabase ==
    /\ [](SatisfiesDatabase(class_database))
    /\ [][~call'.returned.success
             => class_database' = class_database]_vars

\* the last class of a day was deleted and the day with it, while another
\* day holds a class that was added with the periods text " 2,1"
C22_Witness ==
    /\ call.fn = "delete_class" /\ call.returned.success
    /\ call.args[1].text \notin DOMAIN class_database
    /\ DOMAIN class_database # {}
    /\ \E d \in DOMAIN class_database :
           \E c \in DOMAIN class_database[d] :
               class_database[d][c].periods = <<1, 2>>

\* the return of the call of the formatter a step makes
LastResponse == format_response'[Len(format_response')]

\* a step that is a call of the formatter
CallStep == Len(format_response') = Len(format_response) + 1

\* what a step does to the slot, and what a report displays
SlotStep ==
    /\ (CallStep /\ LastResponse.type = "html")
          => last_formatted_output' = LastResponse
    /\ (CallStep /\ LastResponse.type # "html")
          => last_formatted_output' = last_formatted_output
    /\ ~CallStep => last_formatted_output' = last_formatted_output
    /\ (pc # "reported" /\ pc' = "reported")
          => formatted_table' = last_formatted_output

\* C30: the slot last_formatted_output holds the table of the most recent
\* call of the formatter that succeeded, None before the first; a call that
\* fails with a parse error or finds no student rows leaves it unchanged,
\* and nothing clears it between requests, so that the final report of a
\* request can display the table of an earlier one.
C30_LastFormattedOutput ==
    /\ [][SlotStep]_vars
    /\ [](last_formatted_output = None
            => \A i \in DOMAIN format_response :
                   format_response[i].type # "html")

\* the report of a request whose calls of the formatter all failed, one with
\* a parse error and one without student rows, displays a table
C30_Witness ==
    /\ pc = "reported"
    /\ Len(format_response) = 2
    /\ format_response[1] = FormatError("Error parsing schedule")
    /\ format_response[2].type = "error"
    /\ format_response[2] # format_response[1]
    /\ formatted_table # None
    /\ formatted_table.type = "html"

====
